---- MODULE Spec2Model ----
(***************************************************************************)
(* GoogleSheetsClient (googlesheets-api-wrapper): the operation queue and  *)
(* its single drain loop, the bounded retry wrapper (process_cycle and the *)
(* retry loops of the *_v2 / *_tab methods) and the cached, time-expiring  *)
(* authenticated client (get_client / init_client).                        *)
(*                                                                         *)
(* One step of the model is one run-to-completion turn of the JavaScript   *)
(* event loop: a public call up to its first real suspension, or the       *)
(* completion of a pending authentication, remote request or timer         *)
(* together with every continuation that it resumes synchronously.         *)
(* Timers and requests take any amount of time: their completions are      *)
(* not tied to the clock, which only get_client reads.                     *)
(*                                                                         *)
(* Spec lets callers use every method; SpecQueue, SpecRetry, SpecSession   *)
(* and SpecChecks are the same program with callers that use the queueable *)
(* methods, the retry-wrapped methods, get_filename with time passing, and *)
(* check_read_write_permissions with time passing; SpecQueueFair is        *)
(* SpecQueue with operations that settle and timers that fire.             *)
(* SpecFrame has callers of the retry-wrapped methods beside callers that *)
(* submit to the queue, SpecPair callers of write_to_tab whose calls       *)
(* overlap, and SpecSilent a client constructed silent or not.             *)
(* SpecRefresh has callers whose get_client calls overlap while time      *)
(* passes.                                                                 *)
(* SpecInstance has the callers of get_instance. SpecAppend, SpecColumn,   *)
(* SpecRowsMap and SpecLetters start when the read of append_row_v2 /      *)
(* get_row_by_column_value / get_rows_map_of_values /                      *)
(* get_column_letter_map_of_row has returned, with any response, and run   *)
(* the computation on it (SpecLetters also runs column_to_letter on any    *)
(* column number).                                                         *)
(***************************************************************************)
EXTENDS Integers, Sequences, FiniteSets, TLC

VARIABLES
    clock,            \* Date.now()
    sheets,           \* this.sheets: the cached client handle (NoHandle = null)
    last_init_time,   \* this.last_init_time
    queue,            \* this.queue: ids of the calls whose QueueItem is waiting
    is_processing,    \* this.is_processing
    calls,            \* the public calls made so far, by id
    ncalls,           \* number of public calls made so far
    loops,            \* process_queue invocations, by the id of the enqueueing call
    submitted,        \* history: calls in the order enqueue() pushed them
    started,          \* history: calls in the order the drain loop invoked them
    settled,          \* history: calls in the order the drain loop settled them
    instance,         \* GoogleSheetsClient.instance: the object held by the static field
    objs,             \* the objects the constructor has made, by identity
    handed,           \* history: the get_instance calls, arguments and returned object
    arg,              \* the argument an operation's computation compares with
    response,         \* response.data.values of the read an operation computes on
    answer            \* what the operation computed from the response

\* the fields of the client object and the calls on it
client == <<clock, sheets, last_init_time, queue, is_processing, calls, ncalls,
            loops, submitted, started, settled>>

\* the static field with the objects made, and the data of one operation
aux == <<instance, objs, handed, arg, response, answer>>

vars == <<clock, sheets, last_init_time, queue, is_processing, calls, ncalls,
          loops, submitted, started, settled, instance, objs, handed, arg,
          response, answer>>

-----------------------------------------------------------------------------
(* Program constants *)

MAX_RETRIES == 8

RETRY_DELAY == 60000

REFRESH_INTERVAL == 50 * 60 * 1000

QUEUE_DELAY == 100

(* Bounds of the model *)

MaxCalls == 3

MaxMixedCalls == 2

MaxRetryCalls == 1

MaxSessionCalls == 3

MaxTicks == 2

MaxInstanceCalls == 3

MaxCheckCalls == 1

MaxRows == 2

MaxCols == 2

MaxColumnRows == 3

MaxFrameCalls == 2

MaxPairCalls == 2

-----------------------------------------------------------------------------
(* Methods of the public surface, by the way they are dispatched *)

\* operation() directly when force, enqueue(operation) otherwise
QueueMethods == {"get_cell"}

\* retry loop around process_cycle, resolving with the literal true
WriteRetryMethods == {"write_to_tab"}

\* retry loop around process_cycle, resolving with the operation's result
ReadRetryMethods == {"read_entire_tab"}

RetryMethods == WriteRetryMethods \cup ReadRetryMethods

\* a single try / catch around the remote request
PlainMethods == {"get_filename"}

\* try / catch / finally around two probes and a cleanup request, resolving
\* with a boolean
CheckMethods == {"check_read_write_permissions"}

Methods == QueueMethods \cup RetryMethods \cup PlainMethods \cup CheckMethods

\* the values a caller can pass as the force argument of m (get_filename and
\* the permission check have no such parameter; the retry-wrapped methods
\* accept and ignore it)
ForceArgs(m) == IF m \in PlainMethods \cup CheckMethods THEN {FALSE} ELSE BOOLEAN

\* the request a method is at when its first get_client is called
FirstStage(m) == IF m \in CheckMethods THEN "read" ELSE "none"

-----------------------------------------------------------------------------
(* Values *)

\* client handles are numbered in the order init_client creates them; null is 0
NoHandle == 0

\* the static field before the first get_instance call (objects are numbered
\* in the order the constructor makes them)
NoInstance == 0

NoVal == [tag |-> "none", c |-> 0, n |-> 0, o |-> "none"]

TrueVal == [tag |-> "true", c |-> 0, n |-> 0, o |-> "none"]

FalseVal == [tag |-> "false", c |-> 0, n |-> 0, o |-> "none"]

\* what invocation n of call c's operation resolves with
OpResult(m, c, n) ==
    IF m \in WriteRetryMethods THEN TrueVal
    ELSE [tag |-> "data", c |-> c, n |-> n, o |-> "remote"]

\* the number k as a value
Num(k) == [tag |-> "num", c |-> 0, n |-> k, o |-> "none"]

\* null as a value
NullVal == [tag |-> "null", c |-> 0, n |-> 0, o |-> "none"]

\* the error object raised inside invocation n of call c's operation
OpError(c, n, origin) == [tag |-> "error", c |-> c, n |-> n, o |-> origin]

\* variant of Truthy: only the literal true counts as success
Truthy_only_true(v) == v.tag = "true"

\* JavaScript truthiness of the values an operation can produce (true and
\* arrays, the empty one included, are truthy), as tested by the retry loops
Truthy(v) == v.tag \in {"true", "data"}

NewCall ==
    [method |-> "none", force |-> FALSE, pc |-> "none",
     attempt |-> 0, works |-> 0, oks |-> 0, waits |-> 0, timer |-> 0,
     now |-> 0, prev |-> NoHandle, age |-> 0, nauth |-> 0, got |-> NoHandle,
     ret |-> NoVal, found |-> "none",
     stage |-> "none", verdict |-> NoVal, log |-> <<>>, console |-> 0]

NoLoop == [pc |-> "none", item |-> 0, timer |-> 0]

-----------------------------------------------------------------------------
(* constructor / get_instance *)

\* an optional parameter that the caller left out
Undefined == "undefined"

KeyFilePaths == {"a.json", "b.json"}

\* the Params objects a caller can pass
ParamsArgs ==
    [keyFilePath : KeyFilePaths,
     isSilent : {"true", "false", Undefined},
     isDebug : {"true", Undefined}]

\* x || false for an optional boolean x
or_false(x) == x = "true"

\* the fields the constructor sets from its Params
constructor(params) ==
    [keyFilePath |-> params.keyFilePath,
     is_silent |-> or_false(params.isSilent),
     is_debug |-> or_false(params.isDebug)]

\* variant of has_instance: the static field is not consulted
has_instance_never(i) == FALSE

\* GoogleSheetsClient.instance is set
has_instance(i) == i # NoInstance

-----------------------------------------------------------------------------
(* append_row / append_row_v2: the row to append at *)

\* the cell value null (no string a cell can hold)
JsNull == "<null>"

Cells == {JsNull, "", "x"}

\* the rows of response.data.values: arrays of cells, the empty one included
Rows == UNION {[1..n -> Cells] : n \in 0..MaxCols}

\* response.data.values || []
TabDatas == UNION {[1..n -> Rows] : n \in 0..MaxRows}

\* variant of cell_has_data: the empty string counts as data
cell_has_data_not_null(cell) == cell # JsNull

\* cell !== null && cell !== ''
cell_has_data(cell) == cell # JsNull /\ cell # ""

\* tabData[i] && tabData[i].some(...): a row is an array, which is truthy
row_has_data(row) == \E j \in 1..Len(row) : cell_has_data(row[j])

\* the loop from the last row down; i is the loop index of the code plus
\* one, the value is lastRowIndex
RECURSIVE last_row_index(_, _)
last_row_index(tabData, i) ==
    IF i < 1 THEN 0
    ELSE IF row_has_data(tabData[i]) THEN i
    ELSE last_row_index(tabData, i - 1)

\* the row of the append range, A${lastRowIndex + 1}
append_range_row(tabData) == last_row_index(tabData, Len(tabData)) + 1

-----------------------------------------------------------------------------
(* get_row_by_column_value *)

\* the rows of a one-column read: no cell at all, or one cell
ColumnRows == {<<>>} \cup {<<v>> : v \in {"a", "b", ""}}

\* response.data.values || [] of the column read
ColumnDatas == UNION {[1..n -> ColumnRows] : n \in 0..MaxColumnRows}

\* the values a caller searches for (a string in the column or not, the
\* empty string, and a parameter left out)
SearchArgs == {"a", "b", "c", "", Undefined}

\* rows.map((row) => row[0])
first_cells(rows) ==
    [i \in 1..Len(rows) |-> IF Len(rows[i]) = 0 THEN Undefined ELSE rows[i][1]]

\* has_duplicates(arr, ...) from element i on, seen being the values added
\* to the Set so far
RECURSIVE has_duplicates(_, _, _)
has_duplicates(arr, i, seen) ==
    IF i > Len(arr) THEN FALSE
    ELSE IF arr[i] # "" /\ arr[i] # JsNull /\ arr[i] # Undefined
         THEN IF arr[i] \in seen THEN TRUE
              ELSE has_duplicates(arr, i + 1, seen \cup {arr[i]})
         ELSE has_duplicates(arr, i + 1, seen)

\* variant of index_of: lastIndexOf
RECURSIVE index_of_last(_, _, _)
index_of_last(values, value, i) ==
    IF i > Len(values) THEN -1
    ELSE LET later == index_of_last(values, value, i + 1)
         IN  IF later # -1 THEN later
             ELSE IF values[i] = value THEN i - 1 ELSE -1

\* values.indexOf(value) searching from element i on (strict equality; the
\* index is 0-based, -1 when there is none)
RECURSIVE index_of(_, _, _)
index_of(values, value, i) ==
    IF i > Len(values) THEN -1
    ELSE IF values[i] = value THEN i - 1
    ELSE index_of(values, value, i + 1)

\* the operation of get_row_by_column_value once the column has been read:
\* what it returns, and whether it reports duplicates
row_by_column_value(rows, value) ==
    LET values == first_cells(rows)
        column_index == index_of(values, value, 1)
    IN  [ret |-> IF column_index = -1 THEN NullVal ELSE Num(column_index + 1),
         warned |-> has_duplicates(values, 1, {})]

MaxRequested == 2

\* the values arrays a caller of get_rows_map_of_values passes (strings in
\* the column or not)
RequestedValues == UNION {[1..n -> {"a", "b", "c"}] : n \in 0..MaxRequested}

\* the operation of get_rows_map_of_values once the column has been read:
\* rows_map[value] = raw_values.indexOf(value) + 1 for each value in turn,
\* and whether it reports duplicates among the values
rows_map_of_values(rows, values) ==
    LET raw_values == first_cells(rows)
    IN  [rows_map |-> [value \in {values[i] : i \in 1..Len(values)} |->
                          Num(index_of(raw_values, value, 1) + 1)],
         warned |-> has_duplicates(values, 1, {})]

-----------------------------------------------------------------------------
(* column_to_letter / get_column_letter_map_of_row *)

MaxColumn == 704

MaxHeaderCols == 3

\* response.data.values?.[0] || [] of the row read
HeaderRows == UNION {[1..n -> {"a", "b", "c"}] : n \in 0..MaxHeaderCols}

\* column_to_letter(column): the string built by the while loop, as the
\* sequence of its character codes (each turn puts
\* String.fromCharCode(temp + 65) in front of the letters of the later turns)
RECURSIVE column_to_letter(_)
column_to_letter(column) ==
    IF column > 0
    THEN LET temp == (column - 1) % 26
         IN  column_to_letter((column - temp - 1) \div 26) \o <<temp + 65>>
    ELSE <<>>

\* columns.forEach((column, index) => column_letter_map[column] =
\* this.column_to_letter(index + 1)) from element i on (i is index + 1)
RECURSIVE column_letter_map(_, _, _)
column_letter_map(columns, i, map) ==
    IF i > Len(columns) THEN map
    ELSE column_letter_map(columns, i + 1,
             [key \in DOMAIN map \cup {columns[i]} |->
                  IF key = columns[i] THEN column_to_letter(i) ELSE map[key]])

-----------------------------------------------------------------------------
(* get_client *)

\* variant of needs_refresh: a cached handle never expires
needs_refresh_never_expires(s, now, last) == s = NoHandle

\* variant of needs_refresh: a handle expires on reaching the interval
needs_refresh_at_interval(s, now, last) ==
    s = NoHandle \/ now - last >= REFRESH_INTERVAL

needs_refresh(s, now, last) ==
    s = NoHandle \/ now - last > REFRESH_INTERVAL

\* An operation invocation starts: get_client() runs up to init_client's
\* await, or returns the cached handle and the remote request is issued.
StartOp(r) ==
    LET now == clock
        r1 == [r EXCEPT !.works = @ + 1, !.prev = sheets,
                        !.age = now - last_init_time]
    IN  IF needs_refresh(sheets, now, last_init_time)
        THEN [r1 EXCEPT !.pc = "auth", !.now = now, !.nauth = 1, !.got = NoHandle]
        ELSE [r1 EXCEPT !.pc = "remote", !.now = 0, !.nauth = 0, !.got = sheets]

-----------------------------------------------------------------------------
(* process_queue / enqueue *)

\* variant of process_queue_busy: the guard is missing
process_queue_busy_never(ip) == FALSE

process_queue_busy(ip) == ip

\* variant of shift: the item is read and left in the queue
shift_peek(q) == [item |-> Head(q), rest |-> q]

\* variant of shift: pop() instead of shift()
shift_last(q) == [item |-> q[Len(q)], rest |-> SubSeq(q, 1, Len(q) - 1)]

shift(q) == [item |-> Head(q), rest |-> Tail(q)]

\* variant of Drain: the loop ends without clearing is_processing
Drain_keeps_flag(l, q, cs) ==
    IF Len(q) > 0
    THEN LET it == shift(q).item
         IN  /\ queue' = shift(q).rest
             /\ calls' = [cs EXCEPT ![it] = StartOp(@)]
             /\ loops' = [loops EXCEPT ![l] = [pc |-> "await", item |-> it, timer |-> 0]]
             /\ is_processing' = TRUE
             /\ started' = Append(started, it)
    ELSE /\ queue' = q
         /\ calls' = cs
         /\ loops' = [loops EXCEPT ![l] = [pc |-> "done", item |-> 0, timer |-> 0]]
         /\ UNCHANGED <<is_processing, started>>

\* variant of Drain: an if in place of the while, one item per invocation
Drain_one_item(l, q, cs) ==
    IF Len(q) > 0 /\ loops[l].pc # "pause"
    THEN LET it == shift(q).item
         IN  /\ queue' = shift(q).rest
             /\ calls' = [cs EXCEPT ![it] = StartOp(@)]
             /\ loops' = [loops EXCEPT ![l] = [pc |-> "await", item |-> it, timer |-> 0]]
             /\ is_processing' = TRUE
             /\ started' = Append(started, it)
    ELSE /\ queue' = q
         /\ calls' = cs
         /\ loops' = [loops EXCEPT ![l] = [pc |-> "done", item |-> 0, timer |-> 0]]
         /\ is_processing' = FALSE
         /\ UNCHANGED started

\* the while loop of process_queue, from its condition to the next await
Drain(l, q, cs) ==
    IF Len(q) > 0
    THEN LET it == shift(q).item
         IN  /\ queue' = shift(q).rest
             /\ calls' = [cs EXCEPT ![it] = StartOp(@)]
             /\ loops' = [loops EXCEPT ![l] = [pc |-> "await", item |-> it, timer |-> 0]]
             /\ is_processing' = TRUE
             /\ started' = Append(started, it)
    ELSE /\ queue' = q
         /\ calls' = cs
         /\ loops' = [loops EXCEPT ![l] = [pc |-> "done", item |-> 0, timer |-> 0]]
         /\ is_processing' = FALSE
         /\ UNCHANGED started

\* history: where the worker is when enqueue pushes an item ("idle" when no
\* process_queue invocation is inside its loop)
WorkerAt ==
    LET active == {l \in 1..MaxCalls : loops[l].pc \in {"await", "pause"}}
    IN  IF active = {} THEN "idle" ELSE loops[CHOOSE l \in active : TRUE].pc

\* variant of use_queue: every method without force goes through enqueue
use_queue_all_methods(m, force) == ~force

\* variant of use_queue: the force flag is not honoured
use_queue_always(m, force) == m \in QueueMethods

use_queue(m, force) == m \in QueueMethods /\ ~force

-----------------------------------------------------------------------------
(* process_cycle and the retry loops *)

\* variant of is_last_attempt: compares with MAX_RETRIES
is_last_attempt_off_by_one(attempt) == attempt = MAX_RETRIES

is_last_attempt(attempt) == attempt = MAX_RETRIES - 1

\* variant of process_cycle: the last failure is waited for like the others
process_cycle_never_throws(v, attempt) ==
    IF v.tag # "error" THEN [k |-> "return", v |-> v]
    ELSE [k |-> "wait", v |-> FalseVal]

\* variant of process_cycle: an error of the operation itself is final
process_cycle_classifies(v, attempt) ==
    IF v.tag # "error" THEN [k |-> "return", v |-> v]
    ELSE IF is_last_attempt(attempt) \/ v.o = "not_found"
         THEN [k |-> "throw", v |-> v]
    ELSE [k |-> "wait", v |-> FalseVal]

\* variant of process_cycle: false is returned without waiting
process_cycle_no_wait(v, attempt) ==
    IF v.tag # "error" THEN [k |-> "return", v |-> v]
    ELSE IF is_last_attempt(attempt) THEN [k |-> "throw", v |-> v]
    ELSE [k |-> "return", v |-> FalseVal]

\* process_cycle(operation, attempt, ...) once operation() has settled with v:
\* it returns the value, rethrows the error, or waits RETRY_DELAY and then
\* returns false
process_cycle(v, attempt) ==
    IF v.tag # "error" THEN [k |-> "return", v |-> v]
    ELSE IF is_last_attempt(attempt) THEN [k |-> "throw", v |-> v]
    ELSE [k |-> "wait", v |-> FalseVal]

\* what the retry loop's method returns once it has left the loop with x
\* the last value process_cycle returned
retry_return(m, x) == IF m \in WriteRetryMethods THEN TrueVal ELSE x

\* variant of RetryLoop: one attempt counter for all the calls
RetryLoop_shared_counter(r, x) ==
    LET attempt == CHOOSE n \in 0..MAX_RETRIES :
                       /\ \E c \in 1..MaxCalls : calls[c].attempt = n
                       /\ \A c \in 1..MaxCalls : calls[c].attempt <= n
    IN  IF Truthy(x)
        THEN [r EXCEPT !.pc = "resolved", !.ret = retry_return(r.method, x)]
        ELSE IF attempt + 1 < MAX_RETRIES
             THEN StartOp([r EXCEPT !.attempt = attempt + 1])
             ELSE [r EXCEPT !.attempt = attempt + 1, !.pc = "resolved",
                            !.ret = retry_return(r.method, x)]

\* the body of a retry loop from the value x returned by process_cycle to the
\* next await (or to the return)
RetryLoop(r, x) ==
    IF Truthy(x)
    THEN [r EXCEPT !.pc = "resolved", !.ret = retry_return(r.method, x)]
    ELSE IF r.attempt + 1 < MAX_RETRIES
         THEN StartOp([r EXCEPT !.attempt = @ + 1])
         ELSE [r EXCEPT !.attempt = @ + 1, !.pc = "resolved",
                        !.ret = retry_return(r.method, x)]

\* a promise settling with v, as its awaiter sees it
Outcome(r, v) ==
    [r EXCEPT !.pc = IF v.tag = "error" THEN "rejected" ELSE "resolved",
              !.ret = v]

\* the locals of a finished operation invocation are gone
EndOp(r) ==
    [r EXCEPT !.now = 0, !.prev = NoHandle, !.age = 0, !.nauth = 0,
              !.got = NoHandle]

\* variant of deliver: the handle gets a new object, not the operation's own
deliver_wrapped(r, v) == Outcome(r, [v EXCEPT !.n = 0])

\* try { item.resolve(await item.operation()) } catch (e) { item.reject(e) }
deliver(r, v) == Outcome(r, v)

\* variant of after_item: a failing item ends the loop
after_item_stop_on_error(v) == IF v.tag = "error" THEN "done" ELSE "pause"

\* where the drain loop is once it has settled an item with v: in the
\* inter-item timer, after the try / catch, whatever the outcome
after_item(v) == "pause"

\* history of check_read_write_permissions: what the get_client call and the
\* request of stage st came to, given the outcome v of the stage
StageLog(st, v) ==
    IF v.o = "auth"
    THEN <<[ev |-> "get_client", ok |-> FALSE]>>
    ELSE (IF st = "write" THEN <<>> ELSE <<[ev |-> "get_client", ok |-> TRUE]>>)
         \o <<[ev |-> st, ok |-> v.tag # "error"]>>

\* variant of after_cleanup: an error of the cleanup is the outcome
after_cleanup_propagates(verdict, v) == IF v.tag = "error" THEN v ELSE verdict

\* what the call settles with once the finally block is over, the cleanup
\* having come to v: the value the try or the catch block returned
after_cleanup(verdict, v) == verdict

\* check_read_write_permissions from the outcome v of the pending
\* get_client or request of r.stage to the next await (or to the return)
CheckPermissions(r, v) ==
    LET r1 == [r EXCEPT !.log = @ \o StageLog(r.stage, v)]
    IN  CASE r.stage = "cleanup" ->
                 Outcome([r1 EXCEPT !.stage = "none", !.verdict = NoVal],
                         after_cleanup(r.verdict, v))
          [] r.stage = "read" /\ v.tag # "error" ->
                 [r1 EXCEPT !.stage = "write", !.pc = "remote"]
          [] r.stage = "write" /\ v.tag # "error" ->
                 StartOp([r1 EXCEPT !.stage = "cleanup", !.verdict = TrueVal])
          [] OTHER ->
                 StartOp([r1 EXCEPT !.stage = "cleanup", !.verdict = FalseVal])

\* to_console(msg, isSilent, isError): the number of lines it prints
to_console(isSilent, isError) ==
    IF isError THEN 1
    ELSE IF ~isSilent THEN 1
    ELSE 0

\* this.is_silent of the client whose methods are called: the value of the
\* field initializer unless a constructor call has set it
is_silent == IF instance = NoInstance THEN FALSE ELSE objs[instance].is_silent

\* the lines that to_console prints, with this.is_silent as its flag, while
\* call r is resumed by the outcome v of its operation: the message of the
\* catch block that v passes through (two in process_cycle on the last
\* attempt), and the success message of a write
printed(r, v, isSilent) ==
    IF v.tag = "error"
    THEN to_console(isSilent, TRUE)
         + (IF r.method \in RetryMethods /\ is_last_attempt(r.attempt)
            THEN to_console(isSilent, TRUE) ELSE 0)
    ELSE IF r.method \in WriteRetryMethods THEN to_console(isSilent, FALSE)
    ELSE 0

\* variant of Resume: a silent client does not retry
Resume_silent_gives_up(r0, v, isSilent) ==
    LET r == [EndOp(r0) EXCEPT !.oks = IF v.tag = "error" THEN @ ELSE @ + 1,
                               !.console = @ + printed(r0, v, isSilent)]
    IN  IF r.method \in CheckMethods THEN CheckPermissions(r, v)
        ELSE IF r.method \in RetryMethods
        THEN LET pcy == process_cycle(v, r.attempt)
             IN  CASE pcy.k = "return" -> RetryLoop(r, pcy.v)
                   [] pcy.k = "throw" \/ (pcy.k = "wait" /\ isSilent) -> Outcome(r, v)
                   [] OTHER -> [r EXCEPT !.pc = "wait", !.waits = @ + 1,
                                         !.timer = RETRY_DELAY]
        ELSE IF use_queue(r.method, r.force) THEN deliver(r, v)
        ELSE Outcome(r, v)

\* Call r0 from the moment invocation r0.works of its operation settles with
\* v to its next await (or to its end), in a client whose is_silent field is
\* isSilent.
Resume(r0, v, isSilent) ==
    LET r == [EndOp(r0) EXCEPT !.oks = IF v.tag = "error" THEN @ ELSE @ + 1,
                               !.console = @ + printed(r0, v, isSilent)]
    IN  IF r.method \in CheckMethods THEN CheckPermissions(r, v)
        ELSE IF r.method \in RetryMethods
        THEN LET pcy == process_cycle(v, r.attempt)
             IN  CASE pcy.k = "return" -> RetryLoop(r, pcy.v)
                   [] pcy.k = "throw"  -> Outcome(r, pcy.v)
                   [] OTHER -> [r EXCEPT !.pc = "wait", !.waits = @ + 1,
                                         !.timer = RETRY_DELAY]
        ELSE IF use_queue(r.method, r.force) THEN deliver(r, v)
        ELSE Outcome(r, v)

\* Invocation r.works of call c's operation settles with v; everything that
\* is resumed by it runs up to its next await: the call, and the drain loop
\* that awaits it if it is a queue item.
Settle(c, v) ==
    LET r == calls[c]
    IN  /\ calls' = [calls EXCEPT ![c] = Resume(r, v, is_silent)]
        /\ IF /\ r.method \notin CheckMethods \cup RetryMethods
              /\ use_queue(r.method, r.force)
           THEN LET l == CHOOSE k \in 1..MaxCalls :
                             loops[k].pc = "await" /\ loops[k].item = c
                IN  /\ loops' = [loops EXCEPT ![l].pc = after_item(v),
                                              ![l].timer = QUEUE_DELAY]
                    /\ settled' = Append(settled, c)
           ELSE UNCHANGED <<loops, settled>>

-----------------------------------------------------------------------------
(* Actions *)

InitClient ==
    /\ clock = 0
    /\ sheets = NoHandle
    /\ last_init_time = 0
    /\ queue = <<>>
    /\ is_processing = FALSE
    /\ calls = [c \in 1..MaxCalls |-> NewCall]
    /\ ncalls = 0
    /\ loops = [c \in 1..MaxCalls |-> NoLoop]
    /\ submitted = <<>>
    /\ started = <<>>
    /\ settled = <<>>

\* no get_instance call yet
InitStatic ==
    /\ instance = NoInstance
    /\ objs = <<>>
    /\ handed = <<>>

\* no operation is computing on a response
InitData ==
    /\ arg = NoVal
    /\ response = <<>>
    /\ answer = NoVal

Init == InitClient /\ InitStatic /\ InitData

\* the number of Tick steps that led to the clock value t
TicksTaken(t) == (t \div REFRESH_INTERVAL) + (t % REFRESH_INTERVAL)

\* time passes
Tick(d) ==
    /\ TicksTaken(clock) < MaxTicks
    /\ clock' = clock + d
    /\ UNCHANGED <<sheets, last_init_time, queue, is_processing, calls, ncalls,
                   loops, submitted, started, settled>>
    /\ UNCHANGED aux

\* number of calls of retry-wrapped methods made so far
NRetry == Cardinality({c \in 1..ncalls : calls[c].method \in RetryMethods})

\* the callers have not used up their calls of retry-wrapped methods
RetryRoom(m) == m \in RetryMethods => NRetry < MaxRetryCalls

\* variant of Call: a submission waits until no worker is active
Call_when_idle(m, force, limit) ==
    /\ use_queue(m, force) => ~is_processing
    /\ ncalls < limit
    /\ ncalls < MaxCalls
    /\ LET c == ncalls + 1
           r == [NewCall EXCEPT !.method = m, !.force = force,
                               !.stage = FirstStage(m)]
       IN  /\ ncalls' = c
           /\ IF use_queue(m, force)
              THEN \* enqueue: queue.push(item); process_queue()
                   LET q == Append(queue, c)
                       cs == [calls EXCEPT ![c] = [r EXCEPT !.pc = "queued",
                                                     !.found = WorkerAt]]
                   IN  /\ submitted' = Append(submitted, c)
                       /\ IF process_queue_busy(is_processing)
                          THEN /\ queue' = q
                               /\ calls' = cs
                               /\ loops' = [loops EXCEPT ![c].pc = "noop"]
                               /\ UNCHANGED <<is_processing, started>>
                          ELSE Drain(c, q, cs)
              ELSE \* operation() or process_cycle(operation, 0, ...) at once
                   /\ calls' = [calls EXCEPT ![c] = StartOp(r)]
                   /\ UNCHANGED <<queue, is_processing, loops, submitted, started>>
    /\ UNCHANGED <<clock, sheets, last_init_time, settled>>
    /\ UNCHANGED aux

\* a caller invokes public method m with the given force flag
Call(m, force, limit) ==
    /\ ncalls < limit
    /\ ncalls < MaxCalls
    /\ LET c == ncalls + 1
           r == [NewCall EXCEPT !.method = m, !.force = force,
                               !.stage = FirstStage(m)]
       IN  /\ ncalls' = c
           /\ IF use_queue(m, force)
              THEN \* enqueue: queue.push(item); process_queue()
                   LET q == Append(queue, c)
                       cs == [calls EXCEPT ![c] = [r EXCEPT !.pc = "queued",
                                                     !.found = WorkerAt]]
                   IN  /\ submitted' = Append(submitted, c)
                       /\ IF process_queue_busy(is_processing)
                          THEN /\ queue' = q
                               /\ calls' = cs
                               /\ loops' = [loops EXCEPT ![c].pc = "noop"]
                               /\ UNCHANGED <<is_processing, started>>
                          ELSE Drain(c, q, cs)
              ELSE \* operation() or process_cycle(operation, 0, ...) at once
                   /\ calls' = [calls EXCEPT ![c] = StartOp(r)]
                   /\ UNCHANGED <<queue, is_processing, loops, submitted, started>>
    /\ UNCHANGED <<clock, sheets, last_init_time, settled>>
    /\ UNCHANGED aux

\* variant of NewHandle: a renewal hands out the cached object again
NewHandle_cached == IF sheets # NoHandle THEN sheets ELSE sheets + 1

\* the object a resolving init_client() returns: one that did not exist before
\* (this.sheets always holds the newest handle, since a handle is stored in
\* the step that creates it)
NewHandle == sheets + 1

\* init_client() of call c's get_client() resolves: the handle is cached and
\* the remote request of the operation is issued
AuthOk(c) ==
    /\ calls[c].pc = "auth"
    /\ LET h == NewHandle
       IN  /\ sheets' = h
           /\ last_init_time' = calls[c].now
           /\ calls' = [calls EXCEPT ![c].pc = "remote", ![c].got = h, ![c].now = 0]
    /\ UNCHANGED <<clock, queue, is_processing, ncalls, loops, submitted,
                   started, settled>>
    /\ UNCHANGED aux

\* variant of AuthFail: get_client calls init_client once more before it
\* gives up
AuthFail_retries(c) ==
    /\ calls[c].pc = "auth"
    /\ IF calls[c].nauth < 2
       THEN /\ calls' = [calls EXCEPT ![c].nauth = @ + 1]
            /\ UNCHANGED <<loops, settled>>
       ELSE Settle(c, OpError(c, calls[c].works, "auth"))
    /\ UNCHANGED <<clock, sheets, last_init_time, queue, is_processing, ncalls,
                   submitted, started>>
    /\ UNCHANGED aux

\* variant of AuthFail: the failed renewal is stamped as if it had succeeded
AuthFail_stamps_time(c) ==
    /\ calls[c].pc = "auth"
    /\ last_init_time' = calls[c].now
    /\ Settle(c, OpError(c, calls[c].works, "auth"))
    /\ UNCHANGED <<clock, sheets, queue, is_processing, ncalls,
                   submitted, started>>
    /\ UNCHANGED aux

\* init_client() of call c's get_client() rejects: the operation fails
AuthFail(c) ==
    /\ calls[c].pc = "auth"
    /\ Settle(c, OpError(c, calls[c].works, "auth"))
    /\ UNCHANGED <<clock, sheets, last_init_time, queue, is_processing, ncalls,
                   submitted, started>>
    /\ UNCHANGED aux

\* the remote request of call c's operation succeeds
RemoteOk(c) ==
    /\ calls[c].pc = "remote"
    /\ Settle(c, OpResult(calls[c].method, c, calls[c].works))
    /\ UNCHANGED <<clock, sheets, last_init_time, queue, is_processing, ncalls,
                   submitted, started>>
    /\ UNCHANGED aux

\* the remote request of call c's operation fails
RemoteFail(c) ==
    /\ calls[c].pc = "remote"
    /\ Settle(c, OpError(c, calls[c].works, "remote"))
    /\ UNCHANGED <<clock, sheets, last_init_time, queue, is_processing, ncalls,
                   submitted, started>>
    /\ UNCHANGED aux

\* the remote answer to call c's operation names no such tab: the operation
\* throws Error('Tab ... not found')
TabNotFound(c) ==
    /\ calls[c].pc = "remote"
    /\ calls[c].method \in ReadRetryMethods
    /\ Settle(c, OpError(c, calls[c].works, "not_found"))
    /\ UNCHANGED <<clock, sheets, last_init_time, queue, is_processing, ncalls,
                   submitted, started>>
    /\ UNCHANGED aux

\* wait(RETRY_DELAY) of call c's process_cycle is over: it returns false
RetryWaitDone(c) ==
    /\ calls[c].pc = "wait"
    /\ calls[c].timer = RETRY_DELAY
    /\ calls' = [calls EXCEPT ![c] = RetryLoop([calls[c] EXCEPT !.timer = 0], FalseVal)]
    /\ UNCHANGED <<clock, sheets, last_init_time, queue, is_processing, ncalls,
                   loops, submitted, started, settled>>
    /\ UNCHANGED aux

\* variant of PauseDone: the worker also gives up waiting for an operation
PauseDone_times_out(l) ==
    /\ loops[l].pc \in {"pause", "await"}
    /\ Drain(l, queue, calls)
    /\ UNCHANGED <<clock, sheets, last_init_time, ncalls, submitted, settled>>
    /\ UNCHANGED aux

\* the inter-item timer of drain loop l fires
PauseDone(l) ==
    /\ loops[l].pc = "pause"
    /\ loops[l].timer = QUEUE_DELAY
    /\ Drain(l, queue, calls)
    /\ UNCHANGED <<clock, sheets, last_init_time, ncalls, submitted, settled>>
    /\ UNCHANGED aux

\* GoogleSheetsClient.get_instance(params): the constructor runs only while
\* the static field is empty, and only with keyFilePath and isSilent
GetInstance(params) ==
    /\ Len(handed) < MaxInstanceCalls
    /\ IF has_instance(instance)
       THEN UNCHANGED <<instance, objs>>
       ELSE /\ objs' = Append(objs, constructor([keyFilePath |-> params.keyFilePath,
                                                 isSilent |-> params.isSilent,
                                                 isDebug |-> Undefined]))
            /\ instance' = Len(objs) + 1
    /\ handed' = Append(handed, [params |-> params, ret |-> instance'])
    /\ UNCHANGED <<arg, response, answer>>
    /\ UNCHANGED client

\* the operation of append_row / append_row_v2 from the response of its
\* read to its append request
AppendRowScan ==
    /\ answer = NoVal
    /\ answer' = Num(append_range_row(response))
    /\ UNCHANGED <<instance, objs, handed, arg, response>>
    /\ UNCHANGED client

\* the operation of get_row_by_column_value from the response of its read
\* to its return
RowByColumnValue ==
    /\ answer = NoVal
    /\ answer' = row_by_column_value(response, arg)
    /\ UNCHANGED <<instance, objs, handed, arg, response>>
    /\ UNCHANGED client

\* the operation of get_rows_map_of_values from the response of its read to
\* its return
RowsMapOfValues ==
    /\ answer = NoVal
    /\ answer' = rows_map_of_values(response, arg)
    /\ UNCHANGED <<instance, objs, handed, arg, response>>
    /\ UNCHANGED client

\* column_to_letter(arg) is computed
ColumnToLetter ==
    /\ answer = NoVal
    /\ answer' = [tag |-> "letter", letter |-> column_to_letter(arg)]
    /\ UNCHANGED <<instance, objs, handed, arg, response>>
    /\ UNCHANGED client

\* the operation of get_column_letter_map_of_row from the response of its
\* read to its return
ColumnLetterMapOfRow ==
    /\ answer = NoVal
    /\ answer' = [tag |-> "map",
                  column_letter_map |-> column_letter_map(response, 1, <<>>)]
    /\ UNCHANGED <<instance, objs, handed, arg, response>>
    /\ UNCHANGED client

\* callers of every method, with and without force
Next ==
    \/ \E m \in Methods : \E f \in ForceArgs(m) :
           RetryRoom(m) /\ Call(m, f, MaxMixedCalls)
    \/ \E c \in 1..MaxCalls : AuthOk(c)
    \/ \E c \in 1..MaxCalls : AuthFail(c)
    \/ \E c \in 1..MaxCalls : RemoteOk(c)
    \/ \E c \in 1..MaxCalls : RemoteFail(c)
    \/ \E c \in 1..MaxCalls : TabNotFound(c)
    \/ \E c \in 1..MaxCalls : RetryWaitDone(c)
    \/ \E l \in 1..MaxCalls : PauseDone(l)

Spec == Init /\ [][Next]_vars

\* callers of the queueable methods, with and without force
NextQueue ==
    \/ \E m \in QueueMethods, f \in BOOLEAN : Call(m, f, MaxCalls)
    \/ \E c \in 1..MaxCalls : AuthOk(c)
    \/ \E c \in 1..MaxCalls : AuthFail(c)
    \/ \E c \in 1..MaxCalls : RemoteOk(c)
    \/ \E c \in 1..MaxCalls : RemoteFail(c)
    \/ \E l \in 1..MaxCalls : PauseDone(l)

SpecQueue == Init /\ [][NextQueue]_vars

\* callers of the retry-wrapped methods
NextRetry ==
    \/ \E m \in RetryMethods, f \in BOOLEAN : RetryRoom(m) /\ Call(m, f, MaxCalls)
    \/ \E c \in 1..MaxCalls : AuthOk(c)
    \/ \E c \in 1..MaxCalls : AuthFail(c)
    \/ \E c \in 1..MaxCalls : RemoteOk(c)
    \/ \E c \in 1..MaxCalls : RemoteFail(c)
    \/ \E c \in 1..MaxCalls : TabNotFound(c)
    \/ \E c \in 1..MaxCalls : RetryWaitDone(c)

SpecRetry == Init /\ [][NextRetry]_vars

\* callers that reach get_client once per call, time passing
NextSession ==
    \/ \E m \in PlainMethods : Call(m, FALSE, MaxSessionCalls)
    \/ \E d \in {1, REFRESH_INTERVAL} : Tick(d)
    \/ \E c \in 1..MaxCalls : AuthOk(c)
    \/ \E c \in 1..MaxCalls : AuthFail(c)
    \/ \E c \in 1..MaxCalls : RemoteOk(c)
    \/ \E c \in 1..MaxCalls : RemoteFail(c)

SpecSession == Init /\ [][NextSession]_vars

MaxRefreshCalls == 2

\* callers of get_filename whose get_client calls overlap while time passes
NextRefresh ==
    \/ \E m \in PlainMethods : Call(m, FALSE, MaxRefreshCalls)
    \/ \E d \in {1, REFRESH_INTERVAL} : Tick(d)
    \/ \E c \in 1..MaxCalls : AuthOk(c)
    \/ \E c \in 1..MaxCalls : AuthFail(c)
    \/ \E c \in 1..MaxCalls : RemoteOk(c)
    \/ \E c \in 1..MaxCalls : RemoteFail(c)

SpecRefresh == Init /\ [][NextRefresh]_vars

\* callers of check_read_write_permissions, time passing
NextChecks ==
    \/ \E m \in CheckMethods : Call(m, FALSE, MaxCheckCalls)
    \/ \E d \in {1, REFRESH_INTERVAL} : Tick(d)
    \/ \E c \in 1..MaxCalls : AuthOk(c)
    \/ \E c \in 1..MaxCalls : AuthFail(c)
    \/ \E c \in 1..MaxCalls : RemoteOk(c)
    \/ \E c \in 1..MaxCalls : RemoteFail(c)

SpecChecks == Init /\ [][NextChecks]_vars

\* the read of append_row / append_row_v2 has returned any tab data
InitAppend ==
    /\ InitClient
    /\ InitStatic
    /\ arg = NoVal
    /\ response \in TabDatas
    /\ answer = NoVal

NextAppend == AppendRowScan

SpecAppend == InitAppend /\ [][NextAppend]_vars

\* the read of get_row_by_column_value has returned any column, for any
\* value searched
InitColumn ==
    /\ InitClient
    /\ InitStatic
    /\ arg \in SearchArgs
    /\ response \in ColumnDatas
    /\ answer = NoVal

NextColumn == RowByColumnValue

SpecColumn == InitColumn /\ [][NextColumn]_vars

\* the read of get_rows_map_of_values has returned any column, for any
\* values requested
InitRowsMap ==
    /\ InitClient
    /\ InitStatic
    /\ arg \in RequestedValues
    /\ response \in ColumnDatas
    /\ answer = NoVal

NextRowsMap == RowsMapOfValues

SpecRowsMap == InitRowsMap /\ [][NextRowsMap]_vars

\* column_to_letter is given any column number, or the read of
\* get_column_letter_map_of_row has returned any row
InitLetters ==
    /\ InitClient
    /\ InitStatic
    /\ \/ arg \in 0..MaxColumn /\ response = <<>>
       \/ arg = 0 /\ response \in HeaderRows
    /\ answer = NoVal

NextLetters == ColumnToLetter \/ ColumnLetterMapOfRow

SpecLetters == InitLetters /\ [][NextLetters]_vars

\* callers of the retry-wrapped methods beside callers that submit to the
\* queue
NextFrame ==
    \/ \E m \in QueueMethods \cup RetryMethods :
           RetryRoom(m) /\ Call(m, FALSE, MaxFrameCalls)
    \/ \E c \in 1..MaxCalls : AuthOk(c)
    \/ \E c \in 1..MaxCalls : AuthFail(c)
    \/ \E c \in 1..MaxCalls : RemoteOk(c)
    \/ \E c \in 1..MaxCalls : RemoteFail(c)
    \/ \E c \in 1..MaxCalls : TabNotFound(c)
    \/ \E c \in 1..MaxCalls : RetryWaitDone(c)
    \/ \E l \in 1..MaxCalls : PauseDone(l)

SpecFrame == Init /\ [][NextFrame]_vars

MaxSilentCalls == 2

\* the Params of the get_instance call that made the client
SilentParams ==
    {p \in ParamsArgs : p.keyFilePath = "a.json" /\ p.isDebug = Undefined}

\* the client was made by a get_instance call, silent or not
InitSilent ==
    /\ InitClient
    /\ InitData
    /\ \E p \in SilentParams :
           /\ instance = 1
           /\ objs = <<constructor([keyFilePath |-> p.keyFilePath,
                                     isSilent |-> p.isSilent,
                                     isDebug |-> Undefined])>>
           /\ handed = <<[params |-> p, ret |-> 1]>>

\* callers of a silent or a talkative client: writes beside queue items
NextSilent ==
    \/ \E m \in QueueMethods \cup WriteRetryMethods :
           RetryRoom(m) /\ Call(m, FALSE, MaxSilentCalls)
    \/ \E c \in 1..MaxCalls : AuthOk(c)
    \/ \E c \in 1..MaxCalls : AuthFail(c)
    \/ \E c \in 1..MaxCalls : RemoteOk(c)
    \/ \E c \in 1..MaxCalls : RemoteFail(c)
    \/ \E c \in 1..MaxCalls : RetryWaitDone(c)
    \/ \E l \in 1..MaxCalls : PauseDone(l)

SpecSilent == InitSilent /\ [][NextSilent]_vars

\* callers of one retry-wrapped method whose calls overlap, the remote
\* requests failing or not
NextPair ==
    \/ \E m \in WriteRetryMethods : Call(m, FALSE, MaxPairCalls)
    \/ \E c \in 1..MaxCalls : AuthOk(c)
    \/ \E c \in 1..MaxCalls : AuthFail(c)
    \/ \E c \in 1..MaxCalls : RemoteOk(c)
    \/ \E c \in 1..MaxCalls : RemoteFail(c)
    \/ \E c \in 1..MaxCalls : RetryWaitDone(c)

SpecPair == Init /\ [][NextPair]_vars

\* callers of get_instance
NextInstance == \E params \in ParamsArgs : GetInstance(params)

SpecInstance == Init /\ [][NextInstance]_vars

-----------------------------------------------------------------------------
(* Vocabulary of the properties *)

\* s is an initial segment of t
IsPrefix(s, t) == Len(s) <= Len(t) /\ SubSeq(t, 1, Len(s)) = s

InSeq(x, s) == \E i \in 1..Len(s) : s[i] = x

\* the calls submitted through enqueue
Enqueued == {c \in 1..ncalls : InSeq(c, submitted)}

\* the calls whose operation has been invoked and has not settled yet
InFlight == {c \in 1..ncalls : calls[c].pc \in {"auth", "remote"}}

\* the calls whose promise has settled
Settled == {c \in 1..ncalls : calls[c].pc \in {"resolved", "rejected"}}

\* the process_queue invocations that are inside the while loop
ActiveLoops == {l \in 1..MaxCalls : loops[l].pc \in {"await", "pause"}}

-----------------------------------------------------------------------------
\* C1: FIFO. The drain loop invokes the enqueued operations and settles
\* their handles in exactly the order of submission, and it does not invoke
\* an item before every item submitted earlier has been settled.
C1_Fifo ==
    /\ IsPrefix(started, submitted)
    /\ IsPrefix(settled, submitted)
    /\ IsPrefix(settled, started)
    /\ Len(started) <= Len(settled) + 1

\* three submissions, two of them made while the worker was running, all settled
C1_Witness ==
    /\ Len(submitted) = 3
    /\ settled = submitted
    /\ Cardinality({c \in 1..ncalls : loops[c].pc = "noop"}) = 2

\* C2: single worker. At most one drain loop is active, is_processing tells
\* whether one is, and a process_queue call made while is_processing is true
\* returns at once: the item its enqueue pushed is the only change to the
\* queue, no item is taken and no other loop changes.
C2_BusyCallIsNoop ==
    \A c \in 1..MaxCalls :
        (is_processing /\ submitted' = Append(submitted, c)) =>
            /\ loops' = [loops EXCEPT ![c].pc = "noop"]
            /\ queue' = Append(queue, c)
            /\ started' = started
            /\ is_processing'

C2_SingleWorker ==
    /\ [](Cardinality(ActiveLoops) <= 1 /\ (is_processing <=> ActiveLoops # {}))
    /\ [][C2_BusyCallIsNoop]_vars

\* a burst: two submissions arrived while the first item's loop is active
C2_Witness ==
    /\ Cardinality(ActiveLoops) = 1
    /\ Cardinality({c \in 1..ncalls : loops[c].pc = "noop"}) = 2
    /\ Len(queue) = 2

\* C3: every operation invoked without force is run by the queue worker, so
\* no two operations invoked without force are in flight at the same time.
C3_AllSerialized ==
    /\ \A c \in InFlight :
           ~calls[c].force =>
               \E l \in ActiveLoops : loops[l].pc = "await" /\ loops[l].item = c
    /\ Cardinality({c \in InFlight : ~calls[c].force}) <= 1

\* C4: among the operations submitted through enqueue at most one is in
\* flight at any time.
C4_OneInFlight == Cardinality(Enqueued \cap InFlight) <= 1

\* one enqueued operation in flight while two later submissions wait
C4_Witness ==
    /\ Cardinality(Enqueued \cap InFlight) = 1
    /\ Len(queue) = 2

\* the calls of the retry-wrapped methods
RetryCalls == {c \in 1..ncalls : calls[c].method \in RetryMethods}

\* C5: retry bound. The attempt counter of a retry-wrapped call never
\* exceeds MAX_RETRIES - 1; a call whose operation failed on every attempt
\* has invoked it exactly MAX_RETRIES times when it settles, and it settles
\* by rejecting with the error raised by the last of these invocations.
C5_RetryBound ==
    \A c \in RetryCalls :
        LET r == calls[c]
        IN  /\ r.attempt <= MAX_RETRIES - 1
            /\ r.works <= MAX_RETRIES
            /\ (c \in Settled /\ r.oks = 0) =>
                   /\ r.pc = "rejected"
                   /\ r.works = MAX_RETRIES
                   /\ r.ret.tag = "error" /\ r.ret.c = c /\ r.ret.n = MAX_RETRIES
            /\ r.pc = "rejected" => r.oks = 0

\* a call has failed MAX_RETRIES times and is rejected
C5_Witness ==
    \E c \in RetryCalls :
        /\ calls[c].pc = "rejected"
        /\ calls[c].works = MAX_RETRIES
        /\ calls[c].waits = MAX_RETRIES - 1

\* C6: retry success path. A retry-wrapped call whose operation succeeds
\* on attempt k resolves at once, having invoked the operation exactly k
\* times (one more than the failures waited for), with the result of that
\* attempt.
C6_RetrySuccess ==
    \A c \in RetryCalls :
        LET r == calls[c]
        IN  /\ r.oks <= 1
            /\ r.oks = 1 => r.pc = "resolved"
            /\ r.pc = "resolved" =>
                   /\ r.oks = 1
                   /\ r.works = r.waits + 1
                   /\ r.works = r.attempt + 1
                   /\ r.ret = OpResult(r.method, c, r.works)

\* read_entire_tab failed on attempts 1 and 2 and resolved with the data of
\* attempt 3
C6_Witness ==
    \E c \in RetryCalls :
        /\ calls[c].method \in ReadRetryMethods
        /\ calls[c].pc = "resolved"
        /\ calls[c].works = 3
        /\ calls[c].ret.tag = "data" /\ calls[c].ret.n = 3

\* C7: session freshness. A get_client call that finds a handle cached at
\* an age of at most REFRESH_INTERVAL returns that handle and authenticates
\* nothing; one that finds the cached handle older authenticates exactly
\* once and, when that succeeds, returns a handle that did not exist before.
\* (The age of a handle is counted from last_init_time.)
C7_SessionFreshness ==
    \A c \in InFlight :
        LET r == calls[c]
            within == r.prev # NoHandle /\ r.age <= REFRESH_INTERVAL
            after == r.prev # NoHandle /\ r.age > REFRESH_INTERVAL
        IN  /\ within => (r.pc = "remote" /\ r.got = r.prev /\ r.nauth = 0)
            /\ after => r.nauth = 1
            /\ (after /\ r.pc = "remote") => (r.got # r.prev /\ r.got > r.prev)
            /\ r.pc = "auth" => (r.nauth = 1 /\ ~within)

\* one call holds the handle it found cached within the window while a
\* later call, made after the window, holds a new one
C7_Witness ==
    \E c, d \in InFlight :
        /\ calls[c].pc = "remote" /\ calls[c].prev # NoHandle
        /\ calls[c].age > 0 /\ calls[c].age <= REFRESH_INTERVAL
        /\ calls[c].got = calls[c].prev /\ calls[c].nauth = 0
        /\ calls[d].pc = "remote" /\ calls[d].prev = calls[c].got
        /\ calls[d].age > REFRESH_INTERVAL
        /\ calls[d].nauth = 1 /\ calls[d].got # calls[c].got

\* C8: isolation on failure. An enqueued call is rejected exactly when its
\* own operation failed, and then with its own error; it is resolved with
\* its own result otherwise; handles settle in submission order, and while
\* an enqueued call is unsettled exactly one drain loop stays active,
\* whatever the outcomes of the items before it.
C8_Isolation ==
    /\ \A c \in Enqueued \cap Settled :
           LET r == calls[c]
           IN  /\ r.ret.c = c
               /\ r.pc = "rejected" <=> r.ret.tag = "error"
               /\ r.pc = "rejected" <=> r.oks = 0
               /\ r.pc = "resolved" <=> r.ret.tag = "data"
    /\ IsPrefix(settled, submitted)
    /\ \A c \in Enqueued : c \in Settled <=> InSeq(c, settled)
    /\ (Enqueued \ Settled # {}) => (is_processing /\ Cardinality(ActiveLoops) = 1)

\* three items, the second failed: the first and the third are resolved
C8_Witness ==
    /\ submitted = <<1, 2, 3>>
    /\ settled = <<1, 2, 3>>
    /\ calls[1].pc = "resolved"
    /\ calls[2].pc = "rejected" /\ calls[2].ret.c = 2
    /\ calls[3].pc = "resolved" /\ calls[3].ret.c = 3

\* C9: bypass. The step in which a method is invoked with force = true
\* starts its operation, whatever the state of the queue, and changes
\* neither the queue nor is_processing nor any drain loop.
C9_ForcedStep ==
    \A c \in 1..MaxCalls :
        (ncalls = c - 1 /\ ncalls' = c /\ calls'[c].force) =>
            /\ calls'[c].pc \in {"auth", "remote"}
            /\ calls'[c].works = 1
            /\ queue' = queue
            /\ is_processing' = is_processing
            /\ loops' = loops
            /\ submitted' = submitted
            /\ started' = started

C9_Bypass == [][C9_ForcedStep]_vars

\* a forced operation is in flight together with an enqueued one, with a
\* later submission still waiting in the queue
C9_Witness ==
    /\ \E c \in InFlight : calls[c].force /\ ~InSeq(c, submitted)
    /\ \E c \in InFlight : c \in Enqueued
    /\ Len(queue) = 1
    /\ is_processing

\* C10 as stated: a queued operation that fails is retried up to the bound
\* before its handle is rejected, and the handle is rejected with the error
\* of the last permitted attempt.
C10_QueuedRetried ==
    \A c \in Enqueued :
        calls[c].pc = "rejected" =>
            /\ calls[c].works = MAX_RETRIES
            /\ calls[c].ret.n = MAX_RETRIES

\* C10, amended: the drain loop invokes each dequeued operation exactly once,
\* with no retry and no retry delay; the handle is settled with the outcome
\* of that single invocation, so a failure rejects it with the error of the
\* first and only attempt.
C10_QueuedRunOnce ==
    \A c \in Enqueued :
        LET r == calls[c]
        IN  /\ r.works <= 1
            /\ r.waits = 0
            /\ r.attempt = 0
            /\ r.pc # "wait"
            /\ c \in Settled =>
                   /\ r.works = 1
                   /\ r.ret.c = c /\ r.ret.n = 1
                   /\ r.pc = "rejected" <=> r.ret.tag = "error"

\* an enqueued call rejected after a single invocation of its operation
C10_Witness ==
    \E c \in Enqueued :
        /\ calls[c].pc = "rejected"
        /\ calls[c].works = 1
        /\ calls[c].ret = OpError(c, 1, "remote")

\* the worker makes progress: authentication and remote requests settle
\* (the claim's proviso) and the runtime fires the inter-item timer
SpecQueueFair ==
    /\ SpecQueue
    /\ \A c \in 1..MaxCalls : WF_vars(AuthOk(c) \/ AuthFail(c))
    /\ \A c \in 1..MaxCalls : WF_vars(RemoteOk(c) \/ RemoteFail(c))
    /\ \A l \in 1..MaxCalls : WF_vars(PauseDone(l))

\* C11: liveness. Provided every operation settles, every call submitted
\* through enqueue is eventually resolved or rejected, wherever the worker
\* was when the item was pushed (idle, awaiting an item, or in the pause
\* after the last remaining item).
C11_Liveness ==
    \A c \in 1..MaxCalls : (c \in Enqueued) ~> (c \in Settled)

\* the second of two items was pushed while the worker was in the pause
\* that follows the first (the queue was empty), and it has been settled
C11_Witness ==
    /\ Len(submitted) >= 2
    /\ submitted[1] = 1 /\ submitted[2] = 2
    /\ calls[2].found = "pause"
    /\ 2 \in Settled

\* C12: no retry of authentication. A get_client call runs init_client at
\* most once; the step in which that init_client fails rejects the call
\* with the authentication error and leaves the cache as it was, and no
\* further authentication is made for the call.
C12_AuthStep ==
    \A c \in 1..MaxCalls :
        (calls[c].pc = "auth" /\ calls'[c] # calls[c]) =>
            \/ /\ calls'[c].pc = "remote"
               /\ calls'[c].got = sheets' /\ sheets' # sheets
            \/ /\ calls'[c].pc = "rejected"
               /\ calls'[c].ret = OpError(c, calls[c].works, "auth")
               /\ calls'[c].works = calls[c].works
               /\ sheets' = sheets /\ last_init_time' = last_init_time

C12_NoAuthRetry ==
    /\ [](\A c \in 1..MaxCalls :
             /\ calls[c].nauth <= 1
             /\ calls[c].pc = "auth" => calls[c].nauth = 1)
    /\ [][C12_AuthStep]_vars

\* the renewal of an expired handle failed: the call is rejected with the
\* authentication error after one invocation and the old handle stays cached
C12_Witness ==
    \E c \in 1..ncalls :
        /\ calls[c].pc = "rejected"
        /\ calls[c].ret = OpError(c, 1, "auth")
        /\ calls[c].works = 1
        /\ sheets # NoHandle

\* C13 as stated: get_client returns the cached handle only at an age
\* strictly below REFRESH_INTERVAL and authenticates anew at any age from
\* REFRESH_INTERVAL on, that age included.
C13_StrictWindow ==
    \A c \in InFlight :
        LET r == calls[c]
        IN  r.prev # NoHandle =>
                /\ r.age < REFRESH_INTERVAL <=> (r.nauth = 0 /\ r.got = r.prev)
                /\ r.age >= REFRESH_INTERVAL <=> r.nauth = 1

\* C13, amended: get_client returns the cached handle exactly when its age
\* (the call's Date.now() minus last_init_time) is at most REFRESH_INTERVAL,
\* that age included, and authenticates anew exactly when the age exceeds
\* it; a cached handle is never returned at an age above REFRESH_INTERVAL.
C13_ClosedWindow ==
    \A c \in InFlight :
        LET r == calls[c]
        IN  r.prev # NoHandle =>
                /\ r.age <= REFRESH_INTERVAL <=> (r.nauth = 0 /\ r.got = r.prev)
                /\ r.age > REFRESH_INTERVAL <=> r.nauth = 1
                /\ r.got = r.prev => r.age <= REFRESH_INTERVAL

\* a call made when the cached handle was exactly REFRESH_INTERVAL old holds
\* that handle and has not authenticated
C13_Witness ==
    \E c \in InFlight :
        /\ calls[c].prev # NoHandle
        /\ calls[c].age = REFRESH_INTERVAL
        /\ calls[c].pc = "remote"
        /\ calls[c].got = calls[c].prev
        /\ calls[c].nauth = 0

\* C14: singleton. Every get_instance call returns the object the first
\* call made, whatever its parameters; the constructor has run once, with
\* the key file path and the silence flag of the first call, and a later
\* call changes neither the static field nor any object.
C14_LaterCallsChangeNothing ==
    handed # <<>> => (instance' = instance /\ objs' = objs)

C14_Singleton ==
    /\ [](handed # <<>> =>
             /\ Len(objs) = 1 /\ instance = 1
             /\ \A i \in 1..Len(handed) : handed[i].ret = instance
             /\ objs[instance].keyFilePath = handed[1].params.keyFilePath
             /\ objs[instance].is_silent = or_false(handed[1].params.isSilent))
    /\ [][C14_LaterCallsChangeNothing]_vars

\* three calls with three different configurations got the same object,
\* which has the configuration of the first
C14_Witness ==
    /\ Len(handed) = 3
    /\ handed[1].params.keyFilePath = "a.json" /\ handed[1].params.isSilent = "true"
    /\ handed[2].params.keyFilePath = "b.json" /\ handed[2].params.isSilent = "false"
    /\ handed[3].params.keyFilePath = "b.json" /\ handed[3].params.isSilent = Undefined
    /\ handed[3].ret = handed[1].ret
    /\ objs[handed[3].ret].keyFilePath = "a.json"
    /\ objs[handed[3].ret].is_silent

\* the calls of the permission check
CheckCalls == {c \in 1..ncalls : calls[c].method \in CheckMethods}

\* the log of call c has an entry for event ev with outcome ok
Logged(c, ev, ok) ==
    \E i \in 1..Len(calls[c].log) : calls[c].log[i] = [ev |-> ev, ok |-> ok]

\* check_read_write_permissions never rejects; it resolves with a boolean,
\* true exactly when the first get_client, the read probe and the write
\* probe succeeded, whatever the cleanup came to
C15_Boolean ==
    \A c \in CheckCalls :
        /\ calls[c].pc # "rejected"
        /\ c \in Settled =>
               /\ calls[c].ret \in {TrueVal, FalseVal}
               /\ calls[c].ret = TrueVal <=>
                      /\ calls[c].log[1] = [ev |-> "get_client", ok |-> TRUE]
                      /\ Logged(c, "read", TRUE)
                      /\ Logged(c, "write", TRUE)

\* C15 as stated: C15_Boolean, and the cleanup request is made on every
\* path, whether the probes succeeded or not.
C15_CleanupAlwaysSent ==
    /\ C15_Boolean
    /\ \A c \in CheckCalls \cap Settled :
           Logged(c, "cleanup", TRUE) \/ Logged(c, "cleanup", FALSE)

\* C15, amended: C15_Boolean, and the finally block runs on every path: it
\* calls get_client a second time and makes the cleanup request exactly
\* when that call yields a client; when it does not, no cleanup request is
\* made, and neither failure rejects the call or changes the boolean.
C15_CleanupAttempted ==
    /\ C15_Boolean
    /\ \A c \in CheckCalls \cap Settled :
           LET log == calls[c].log
               n == Len(log)
           IN  /\ calls[c].works = 2
               /\ Cardinality({i \in 1..n : log[i].ev = "get_client"}) = 2
               /\ \/ log[n] = [ev |-> "get_client", ok |-> FALSE]
                  \/ /\ log[n - 1] = [ev |-> "get_client", ok |-> TRUE]
                     /\ log[n].ev = "cleanup"
               /\ Cardinality({i \in 1..n : log[i].ev = "cleanup"}) <= 1

\* both probes succeeded, the handle expired before the finally block and
\* its renewal failed: the call resolved with true and no cleanup request
\* was made
C15_Witness ==
    \E c \in CheckCalls \cap Settled :
        /\ calls[c].ret = TrueVal
        /\ calls[c].log = <<[ev |-> "get_client", ok |-> TRUE],
                            [ev |-> "read", ok |-> TRUE],
                            [ev |-> "write", ok |-> TRUE],
                            [ev |-> "get_client", ok |-> FALSE]>>

\* the 1-based indices of the rows of tab data t that hold at least one
\* cell that is neither null nor the empty string
NonEmptyRows(t) ==
    {i \in 1..Len(t) : \E j \in 1..Len(t[i]) : t[i][j] \notin {JsNull, ""}}

\* C16: the row of the append range is one more than the index of the last
\* row that holds a cell neither null nor empty, and 1 when there is no such
\* row; rows after it are skipped.
C16_AppendAfterLastRow ==
    answer # NoVal =>
        /\ answer.tag = "num"
        /\ IF NonEmptyRows(response) = {}
           THEN answer.n = 1
           ELSE /\ answer.n - 1 \in NonEmptyRows(response)
                /\ \A i \in NonEmptyRows(response) : i <= answer.n - 1

\* a row with data in its second cell, followed by a row of empty cells:
\* the append goes to row 2
C16_Witness ==
    /\ response = << <<"", "x">>, <<"", JsNull>> >>
    /\ answer = Num(2)

\* the cell of row i of the column read (a row without cells has none)
ColumnCell(i) == IF Len(response[i]) = 0 THEN Undefined ELSE response[i][1]

\* the rows of the column read whose cell equals the value searched
Hits == {i \in 1..Len(response) : ColumnCell(i) = arg}

\* C17: get_row_by_column_value returns the 1-based number of the first row
\* whose cell in the column equals the value, and null when no row holds
\* it; a column with duplicates (equal cells that are neither empty nor
\* missing) is reported, and the result is the same first match.
C17_FirstMatch ==
    answer # NoVal =>
        /\ Hits = {} <=> answer.ret = NullVal
        /\ Hits # {} =>
               /\ answer.ret.tag = "num"
               /\ answer.ret.n \in Hits
               /\ \A i \in Hits : answer.ret.n <= i
        /\ answer.warned <=>
               \E i, j \in 1..Len(response) :
                   /\ i < j
                   /\ ColumnCell(i) = ColumnCell(j)
                   /\ ColumnCell(i) \notin {"", Undefined}

\* the value is in rows 2 and 3 of the column: row 2 is returned and the
\* duplicates are reported
C17_Witness ==
    /\ response = << <<"b">>, <<"a">>, <<"a">> >>
    /\ arg = "a"
    /\ answer = [ret |-> Num(2), warned |-> TRUE]

\* C18: placement of the retry delay. Every attempt of a retry-wrapped
\* call but the first starts when one delay, begun by the failure of the
\* attempt before it, is over; a delay begins only after a failed attempt
\* that is not the last permitted one, and none after a success or after
\* the terminal failure: a call that fails MAX_RETRIES times has waited
\* MAX_RETRIES - 1 times.
C18_DelayStep ==
    \A c \in 1..MaxCalls :
        LET r == calls[c]
            q == calls'[c]
        IN  (r.method \in RetryMethods /\ q # r) =>
                /\ r.pc = "wait" =>
                       (q.pc \in {"auth", "remote"} /\ q.works = r.works + 1
                        /\ q.waits = r.waits)
                /\ q.pc = "wait" =>
                       (r.pc \in {"auth", "remote"} /\ q.works = r.works
                        /\ q.waits = r.waits + 1 /\ q.oks = 0)
                /\ ~(r.pc \in {"auth", "remote"} /\ q.works = r.works + 1)

C18_DelayPlacement ==
    /\ [](\A c \in RetryCalls :
             LET r == calls[c]
             IN  /\ r.pc \in {"auth", "remote"} => r.waits = r.works - 1
                 /\ r.pc = "wait" => (r.waits = r.works /\ r.works < MAX_RETRIES)
                 /\ c \in Settled => r.waits = r.works - 1
                 /\ r.pc = "rejected" => r.waits = MAX_RETRIES - 1)
    /\ [][C18_DelayStep]_vars

\* a call in the delay that follows its third failed attempt
C18_Witness ==
    \E c \in RetryCalls :
        /\ calls[c].pc = "wait"
        /\ calls[c].works = 3
        /\ calls[c].waits = 3
        /\ calls[c].timer = RETRY_DELAY

\* what the failure of an attempt of retry-wrapped call c leads to: the
\* delay before the next attempt, or, on the last permitted attempt, the
\* rejection of the call with the error of that attempt
C19_FailureStep(c) ==
    IF calls[c].attempt < MAX_RETRIES - 1
    THEN calls'[c] = [EndOp(calls[c]) EXCEPT !.pc = "wait", !.waits = @ + 1,
                                             !.timer = RETRY_DELAY,
                                             !.console = @ + 1]
    ELSE /\ calls'[c].pc = "rejected"
         /\ calls'[c].ret.tag = "error"
         /\ calls'[c].ret.c = c /\ calls'[c].ret.n = calls[c].works
         /\ calls'[c].works = MAX_RETRIES
         /\ calls'[c].waits = calls[c].waits

\* C19: no classification of errors. The failure of the authentication in
\* get_client, the failure of the remote request and the operation's own
\* 'tab not found' error each end one attempt of a retry-wrapped call and
\* lead to the same step: the same delay and retry, or, on the last
\* permitted attempt, the rejection with that error.
C19_SameStep ==
    \A c \in 1..MaxCalls :
        (calls[c].method \in RetryMethods
         /\ (AuthFail(c) \/ RemoteFail(c) \/ TabNotFound(c))) => C19_FailureStep(c)

C19_NoClassification == [][C19_SameStep]_vars

\* a call rejected with 'tab not found' on its last permitted attempt, after
\* MAX_RETRIES - 1 delays
C19_Witness ==
    \E c \in RetryCalls :
        /\ calls[c].pc = "rejected"
        /\ calls[c].ret = OpError(c, MAX_RETRIES, "not_found")
        /\ calls[c].waits = MAX_RETRIES - 1

\* C20: the queue's state machine. The queue is Idle (is_processing false,
\* no drain loop active) or Draining (is_processing true, one drain loop
\* active); a submission made in Idle moves it to Draining with that item
\* taken; it goes back to Idle only in a step of the worker that finds the
\* queue empty; and a non-empty queue always has an active worker.
C20_Transitions ==
    /\ \A c \in 1..MaxCalls :
           (~is_processing /\ submitted' = Append(submitted, c)) =>
               /\ is_processing'
               /\ loops'[c] = [pc |-> "await", item |-> c, timer |-> 0]
               /\ queue' = <<>>
    /\ (is_processing /\ ~is_processing') =>
           /\ queue = <<>> /\ queue' = <<>>
           /\ \E l \in ActiveLoops : loops[l].pc = "pause" /\ loops'[l].pc = "done"
    /\ (~is_processing /\ is_processing') => Len(submitted') = Len(submitted) + 1

C20_StateMachine ==
    /\ [](/\ is_processing \in BOOLEAN
          /\ ~is_processing <=> ActiveLoops = {}
          /\ is_processing <=> Cardinality(ActiveLoops) = 1
          /\ queue # <<>> => is_processing)
    /\ [][C20_Transitions]_vars

\* Idle again: the worker started by the first submission has drained it
\* and two items submitted while it was Draining, and has ended
C20_Witness ==
    /\ ~is_processing
    /\ queue = <<>>
    /\ Len(submitted) = 3 /\ settled = submitted
    /\ Cardinality({l \in 1..MaxCalls : loops[l].pc = "done"}) = 1
    /\ Cardinality({l \in 1..MaxCalls : loops[l].pc = "noop"}) = 2

\* C21: inter-item spacing. The step in which the worker settles an item
\* puts it into the inter-item timer and takes no item, whether the item
\* succeeded or failed; the timer is entered in no other step and left only
\* when it fires; an item is taken only by the timer firing or by a
\* submission that finds no worker, and every item taken before it has
\* been settled. So one pause lies between the settlement of an item and
\* the start of the next.
C21_PauseStep ==
    /\ settled' # settled =>
           /\ started' = started
           /\ queue' = queue
           /\ \E l \in ActiveLoops :
                  /\ loops[l].pc = "await"
                  /\ loops'[l] = [pc |-> "pause", item |-> loops[l].item,
                                  timer |-> QUEUE_DELAY]
                  /\ settled' = Append(settled, loops[l].item)
    /\ \A l \in 1..MaxCalls :
           /\ (loops'[l].pc = "pause" /\ loops[l].pc # "pause") => settled' # settled
           /\ (loops[l].pc = "pause" /\ loops'[l] # loops[l]) =>
                  /\ loops'[l].pc \in {"await", "done"}
                  /\ settled' = settled
    /\ started' # started =>
           /\ Len(settled) = Len(started)
           /\ \/ \E l \in ActiveLoops : loops[l].pc = "pause" /\ loops'[l].pc = "await"
              \/ ~is_processing /\ Len(submitted') = Len(submitted) + 1

C21_Spacing ==
    /\ [](\A l \in ActiveLoops :
             loops[l].pc = "pause" =>
                 (loops[l].timer = QUEUE_DELAY /\ Len(settled) = Len(started)))
    /\ [][C21_PauseStep]_vars

\* the worker is in the pause that follows a failed item while the next
\* item waits in the queue
C21_Witness ==
    /\ \E l \in ActiveLoops : loops[l].pc = "pause"
    /\ settled # <<>>
    /\ calls[settled[Len(settled)]].pc = "rejected"
    /\ Len(queue) >= 1

\* C22 as stated: an item leaves the queue once its result or failure has
\* been delivered, so the queue holds exactly the submitted items that are
\* not settled yet.
C22_RemovedWhenDelivered ==
    queue = SubSeq(submitted, Len(settled) + 1, Len(submitted))

\* C22, amended: items are appended at the tail by enqueue and removed at
\* the head by the worker in the step that takes them, before their
\* operation is invoked (an item in flight is no longer in the queue);
\* nothing else changes the queue, which is always the submission sequence
\* without the items taken so far.
C22_QueueStep ==
    \/ queue' = queue /\ submitted' = submitted /\ started' = started
    \/ /\ Len(submitted') = Len(submitted) + 1
       /\ queue' = Append(queue, submitted'[Len(submitted')])
       /\ started' = started
    \/ /\ queue # <<>>
       /\ queue' = Tail(queue)
       /\ started' = Append(started, Head(queue))
       /\ submitted' = submitted
    \/ /\ queue = <<>> /\ queue' = <<>>
       /\ Len(submitted') = Len(submitted) + 1
       /\ started' = Append(started, submitted'[Len(submitted')])

C22_SuffixOfSubmissions ==
    /\ [](/\ queue = SubSeq(submitted, Len(started) + 1, Len(submitted))
          /\ \A c \in InFlight \cup Settled : ~InSeq(c, queue))
    /\ [][C22_QueueStep]_vars

\* the first item is settled, the second is in flight and out of the queue,
\* the third waits
C22_Witness ==
    /\ submitted = <<1, 2, 3>>
    /\ started = <<1, 2>>
    /\ settled = <<1>>
    /\ 2 \in InFlight
    /\ queue = <<3>>

\* C23: submission never blocks. Whatever the state of the queue and of
\* the worker, a caller can submit; the step of the submission appends
\* the item (or hands it to a worker started in that step) and leaves the
\* new call pending, and no call settles in it: enqueue waits neither for
\* the operations queued before nor for its own.
C23_SubmitStep ==
    \A c \in 1..MaxCalls :
        submitted' = Append(submitted, c) =>
            /\ calls'[c].pc \in {"queued", "auth", "remote"}
            /\ calls'[c].ret = NoVal
            /\ settled' = settled
            /\ \A d \in 1..MaxCalls : d # c => calls'[d] = calls[d]
            /\ \/ queue' = Append(queue, c)
               \/ queue = <<>> /\ queue' = <<>> /\ started' = Append(started, c)

C23_NeverBlocks ==
    /\ [](ncalls < MaxCalls =>
             \A m \in QueueMethods : ENABLED Call(m, FALSE, MaxCalls))
    /\ [][C23_SubmitStep]_vars

\* a submission made while an operation was in flight and another item was
\* waiting: the call is pending behind both
C23_Witness ==
    /\ submitted = <<1, 2, 3>>
    /\ calls[3].found = "await"
    /\ calls[3].pc = "queued"
    /\ queue = <<2, 3>>
    /\ 1 \in InFlight

\* the calls that hold a handle their own get_client has authenticated
Renewers == {c \in InFlight : calls[c].pc = "remote" /\ calls[c].nauth = 1}

\* C24: redundant refresh. A get_client call that found the handle missing
\* or expired authenticates by itself, also while other such calls are
\* pending; when its authentication succeeds it returns a handle that did
\* not exist when it started, different from the one it found and from the
\* handle of every other call that authenticated; the step installs that
\* handle as the only cached one, in place of whatever was cached.
C24_InstallStep ==
    \A c \in 1..MaxCalls :
        (calls[c].pc = "auth" /\ calls'[c].pc = "remote") =>
            /\ sheets' = calls'[c].got
            /\ sheets' # sheets
            /\ \A d \in 1..MaxCalls : calls[d].got # sheets' /\ calls[d].prev # sheets'

C24_RedundantRefresh ==
    /\ [](/\ \A c \in InFlight :
                 (calls[c].prev = NoHandle \/ calls[c].age > REFRESH_INTERVAL)
                     => calls[c].nauth = 1
          /\ \A c \in Renewers :
                 /\ calls[c].got # NoHandle
                 /\ calls[c].got # calls[c].prev
                 /\ calls[c].got > calls[c].prev
                 /\ calls[c].got <= sheets
          /\ \A c, d \in Renewers : c # d => calls[c].got # calls[d].got
          /\ (Renewers # {} /\ \A c \in InFlight : calls[c].pc # "auth") =>
                 (sheets # NoHandle /\ \A c \in Renewers : sheets >= calls[c].got))
    /\ [][C24_InstallStep]_vars

\* two calls found the same expired handle, each authenticated, each holds
\* a new handle of its own and the cache holds the later of the two
C24_Witness ==
    \E c, d \in Renewers :
        /\ c # d
        /\ calls[c].prev # NoHandle /\ calls[d].prev = calls[c].prev
        /\ calls[c].age > REFRESH_INTERVAL /\ calls[d].age > REFRESH_INTERVAL
        /\ calls[c].got # calls[d].got
        /\ sheets = calls[d].got
        /\ \A e \in InFlight : calls[e].pc # "auth"

\* C25: the retry wrapper does not touch the queue. No step of a
\* retry-wrapped call (its invocation, the outcome of an attempt, the end
\* of a delay, its success or its terminal failure) changes the queue,
\* is_processing or a drain loop, and such a call is never an item of the
\* queue.
C25_RetryStep ==
    \A c \in 1..MaxCalls :
        (calls'[c].method \in RetryMethods /\ calls'[c] # calls[c]) =>
            /\ queue' = queue
            /\ is_processing' = is_processing
            /\ loops' = loops
            /\ submitted' = submitted
            /\ started' = started
            /\ settled' = settled

C26_OwnStep ==
    /\ \A c \in 1..MaxCalls :
           (ncalls = c - 1 /\ ncalls' = c /\ calls'[c].method \in RetryMethods) =>
               (calls'[c].attempt = 0 /\ calls'[c].works = 1 /\ calls'[c].waits = 0)
    /\ \A c, d \in 1..MaxCalls :
           (c # d /\ calls'[c] # calls[c]) => calls'[d] = calls[d]

C26_PerCallCounter ==
    /\ [](\A c \in RetryCalls :
             LET r == calls[c]
             IN  /\ r.pc \in {"auth", "remote", "wait"} =>
                        (r.attempt = r.works - 1 /\ r.oks = 0)
                 /\ r.pc = "resolved" => r.attempt = r.works - 1
                 /\ r.pc = "rejected" =>
                        (r.works = MAX_RETRIES /\ r.attempt = MAX_RETRIES - 1))
    /\ [][C26_OwnStep]_vars

\* two overlapping calls have both failed for good, each after MAX_RETRIES
\* attempts of its own
C26_Witness ==
    /\ ncalls = 2
    /\ \A c \in 1..2 :
           /\ calls[c].method \in RetryMethods
           /\ calls[c].pc = "rejected"
           /\ calls[c].works = MAX_RETRIES
           /\ calls[c].waits = MAX_RETRIES - 1

\* a call's state but for what it has printed
Control(r) == [r EXCEPT !.console = 0]

\* the outcomes with which the pending operation of call c can settle
PendingOutcomes(c) ==
    CASE calls[c].pc = "auth" -> {OpError(c, calls[c].works, "auth")}
      [] calls[c].pc = "remote" ->
             {OpResult(calls[c].method, c, calls[c].works),
              OpError(c, calls[c].works, "remote")}
      [] OTHER -> {}

RowsHolding(value) == {i \in 1..Len(response) : ColumnCell(i) = value}

\* C28: get_rows_map_of_values maps every requested value to the 1-based
\* number of the first row of the column that holds it, and a requested
\* value that no row holds to null, never to a number.
C28_MissingIsNull ==
    answer # NoVal =>
        \A i \in 1..Len(arg) :
            LET value == arg[i]
                row == answer.rows_map[value]
            IN  /\ RowsHolding(value) = {} => row = NullVal
                /\ RowsHolding(value) # {} =>
                       /\ row.tag = "num"
                       /\ row.n \in RowsHolding(value)
                       /\ \A j \in RowsHolding(value) : row.n <= j

\* the number of times x occurs in the sequence s
Count(x, s) == Cardinality({i \in 1..Len(s) : s[i] = x})

\* a settled handle stays as it is
C29_SettledStep ==
    \A c \in Enqueued \cap Settled : calls'[c] = calls[c]

\* C29: exactly-once processing. Every item submitted through enqueue is
\* pushed once, its operation is invoked by the worker at most once, and
\* once and only once by the time its handle settles; the handle is settled
\* once, resolved with the result of that one invocation or rejected with
\* its error, and a settled handle never changes again; the worker invokes
\* nothing but submitted items.
C29_ExactlyOnce ==
    /\ [](/\ \A c \in Enqueued :
                /\ Count(c, submitted) = 1
                /\ Count(c, started) <= 1
                /\ Count(c, started) = calls[c].works
                /\ Count(c, settled) = (IF c \in Settled THEN 1 ELSE 0)
                /\ Count(c, settled) <= Count(c, started)
                /\ calls[c].pc = "resolved" =>
                       calls[c].ret = OpResult(calls[c].method, c, 1)
                /\ calls[c].pc = "rejected" =>
                       calls[c].ret \in {OpError(c, 1, "auth"), OpError(c, 1, "remote")}
          /\ \A i \in 1..Len(started) : started[i] \in Enqueued
          /\ \A i \in 1..Len(settled) : settled[i] \in Enqueued)
    /\ [][C29_SettledStep]_vars

\* the worker has processed two items and stopped: the first was rejected
\* with its own error, the second resolved with its own result
C29_Witness ==
    /\ started = <<1, 2>>
    /\ settled = <<1, 2>>
    /\ calls[1].pc = "rejected" /\ calls[1].ret = OpError(1, 1, "remote")
    /\ calls[2].pc = "resolved" /\ calls[2].ret = OpResult(calls[2].method, 2, 1)
    /\ queue = <<>>
    /\ ~is_processing

\* the calls of the retry-wrapped write methods
WriteCalls == {c \in 1..ncalls : calls[c].method \in WriteRetryMethods}

\* the step in which a write call resolves is the step in which an attempt
\* of its operation completes successfully
C30_ResolveStep ==
    \A c \in 1..MaxCalls :
        (/\ calls[c].method \in WriteRetryMethods
         /\ calls[c].pc # "resolved"
         /\ calls'[c].pc = "resolved") =>
            /\ calls[c].pc = "remote"
            /\ calls'[c].oks = calls[c].oks + 1
            /\ calls'[c].ret = TrueVal

\* C30: a retry-wrapped write resolves with true only if one of its
\* attempts completed successfully: it resolves in the step in which an
\* attempt succeeds and at no other; a write all of whose permitted attempts
\* failed is rejected with an error and never holds true.
C30_TrueOnlyOnSuccess ==
    /\ [](\A c \in WriteCalls :
             LET r == calls[c]
             IN  /\ r.ret = TrueVal => (r.pc = "resolved" /\ r.oks >= 1)
                 /\ r.pc = "resolved" => (r.ret = TrueVal /\ r.oks >= 1)
                 /\ (r.oks = 0 /\ r.works = MAX_RETRIES /\ r.pc \notin {"auth", "remote"}) =>
                        (r.pc = "rejected" /\ r.ret.tag = "error" /\ r.ret # TrueVal))
    /\ [][C30_ResolveStep]_vars

\* a write has resolved with true on its last permitted attempt, after
\* MAX_RETRIES - 1 failures
C30_Witness ==
    \E c \in WriteCalls :
        /\ calls[c].pc = "resolved"
        /\ calls[c].ret = TrueVal
        /\ calls[c].works = MAX_RETRIES
        /\ calls[c].oks = 1

\* the step in which the authentication of call c fails changes neither the
\* cached handle nor last_init_time, so get_client decides after it as it
\* would have decided before
C31_FailedAuthStep ==
    \A c \in 1..MaxCalls :
        (calls[c].pc = "auth" /\ calls'[c].pc = "rejected") =>
            /\ calls'[c].ret = OpError(c, calls[c].works, "auth")
            /\ sheets' = sheets
            /\ last_init_time' = last_init_time
            /\ needs_refresh(sheets', clock', last_init_time')
                   <=> needs_refresh(sheets, clock, last_init_time)

\* the step in which a call is made: its get_client sees the cache as it is,
\* and authenticates when the handle is missing or expired
C31_NextCallStep ==
    \A c \in 1..MaxCalls :
        (ncalls = c - 1 /\ ncalls' = c /\ calls'[c].pc \in {"auth", "remote"}) =>
            /\ calls'[c].prev = sheets
            /\ calls'[c].age = clock - last_init_time
            /\ needs_refresh(sheets, clock, last_init_time) =>
                   (calls'[c].pc = "auth" /\ calls'[c].nauth = 1)

\* C31: a failed authentication leaves the session cache unchanged. The
\* step in which init_client fails inside get_client modifies neither the
\* cached handle nor last_init_time; a handle that was never obtained stays
\* missing with last_init_time 0; and the next get_client call, seeing the
\* same missing or expired state, authenticates again.
C31_FailureKeepsCache ==
    /\ [](sheets = NoHandle => last_init_time = 0)
    /\ [][C31_FailedAuthStep /\ C31_NextCallStep]_vars

\* after a failed authentication the handle is still missing and another
\* call, finding it missing, is authenticating
C31_Witness ==
    /\ sheets = NoHandle
    /\ last_init_time = 0
    /\ \E c, d \in 1..ncalls :
           /\ calls[c].pc = "rejected"
           /\ calls[c].ret = OpError(c, 1, "auth")
           /\ calls[d].pc = "auth"
           /\ calls[d].prev = NoHandle
           /\ calls[d].now > 0

\* a step never moves last_init_time back, and the handle it installs comes
\* from an authentication that started no earlier than the one that made the
\* handle it replaces (last_init_time holds the start of the latter)
C32_MonotoneStep ==
    /\ last_init_time' >= last_init_time
    /\ \A c \in 1..MaxCalls :
           (calls[c].pc = "auth" /\ calls'[c].pc = "remote" /\ sheets # NoHandle) =>
               calls[c].now >= last_init_time

\* C32: the cache timestamp never decreases. In any interleaving of
\* get_client calls, overlapping refreshes that started at different times
\* and complete in any order included, every update of last_init_time sets
\* it to a value greater than or equal to its previous value, and the cached
\* handle is never replaced by one whose authentication started earlier.
C32_TimestampMonotone == [][C32_MonotoneStep]_vars

\* the enqueued calls whose operation the worker awaits
Awaited == Enqueued \cap InFlight

\* a step that does not settle the awaited operation of call c moves the
\* worker nowhere: nothing is started or settled, the loop that awaits c
\* stays where it is, the flag stays set, and the queue only grows at its
\* tail
C33_BlockedStep ==
    \A c \in 1..MaxCalls :
        (c \in Awaited /\ calls'[c].pc \in {"auth", "remote"}) =>
            /\ started' = started
            /\ settled' = settled
            /\ is_processing /\ is_processing'
            /\ IsPrefix(queue, queue')
            /\ \A l \in 1..MaxCalls : loops[l].pc = "await" => loops'[l] = loops[l]
            /\ \A d \in 1..MaxCalls :
                   /\ calls[d].pc = "queued" => calls'[d] = calls[d]
                   /\ (d \in Enqueued /\ d \in Settled) => calls'[d] = calls[d]

\* C33: head-of-line blocking. While the operation of a queued item is in
\* flight the worker awaits it with no timer armed: exactly one loop awaits
\* it, the queue is Draining (is_processing is set), every item submitted
\* after it is still waiting in the queue, and no step other than the
\* settling of that operation starts or settles a queued item, whatever
\* is submitted meanwhile, with or without force.
C33_HeadOfLine ==
    /\ [](\A c \in Awaited :
             /\ is_processing
             /\ Cardinality({l \in 1..MaxCalls : loops[l].pc = "await"}) = 1
             /\ \A l \in 1..MaxCalls :
                    /\ loops[l].pc = "await" => (loops[l].item = c /\ loops[l].timer = 0)
                    /\ loops[l].pc # "pause"
             /\ \A d \in Enqueued :
                    d > c => (calls[d].pc = "queued" /\ InSeq(d, queue)))
    /\ [][C33_BlockedStep]_vars

\* the operation of the first item is still in flight although a forced
\* call made after it has already resolved; a third call waits in the queue
C33_Witness ==
    /\ started = <<1>>
    /\ settled = <<>>
    /\ calls[1].pc = "remote"
    /\ calls[2].force /\ calls[2].pc = "resolved"
    /\ queue = <<3>>
    /\ is_processing

\* the number that the letters stand for in the bijective base-26 system
\* with the digits A = 1 .. Z = 26
RECURSIVE Bijective26(_)
Bijective26(letters) ==
    IF Len(letters) = 0 THEN 0
    ELSE 26 * Bijective26(SubSeq(letters, 1, Len(letters) - 1))
         + (letters[Len(letters)] - 64)

\* column_to_letter returns the empty string for 0 and, for n >= 1, the
\* bijective base-26 name of n over A..Z, which no other number has
C34_Letters ==
    answer.tag = "letter" =>
        /\ arg = 0 => answer.letter = <<>>
        /\ arg >= 1 =>
               /\ \A i \in 1..Len(answer.letter) : answer.letter[i] \in 65..90
               /\ Len(answer.letter) >= 1
               /\ Bijective26(answer.letter) = arg
               /\ \A m \in 1..MaxColumn :
                      m # arg => column_to_letter(m) # answer.letter
        /\ arg = 1 => answer.letter = <<65>>
        /\ arg = 26 => answer.letter = <<90>>
        /\ arg = 27 => answer.letter = <<65, 65>>
        /\ arg = 702 => answer.letter = <<90, 90>>
        /\ arg = 703 => answer.letter = <<65, 65, 65>>

\* the map holds, for the cell at 0-based index i of the row, the letter
\* column_to_letter(i + 1)
C34_Map ==
    answer.tag = "map" =>
        \A i \in 1..Len(response) :
            answer.column_letter_map[response[i]] = column_to_letter(i)

\* C34: column_to_letter terminates for every integer n >= 0, returns the
\* empty string for 0 and for n >= 1 the bijective base-26 column name over
\* A..Z (1 -> A, 26 -> Z, 27 -> AA, 702 -> ZZ, 703 -> AAA), injectively;
\* and get_column_letter_map_of_row assigns to the cell at 0-based index i
\* of the row the letter column_to_letter(i + 1).
C34_ColumnLetters == C34_Letters /\ C34_Map

====
